---------------------------- MODULE Spec2Model ----------------------------
(***************************************************************************)
(* Model of the product catalog service (src/src/productcatalog/app.py):   *)
(* a Flask application with four view functions (health_check,             *)
(* list_products, get_product, search_products) over the module-level list *)
(* PRODUCTS, instrumented with one span per request, the counter           *)
(* request_counter and the histogram request_duration.                     *)
(*                                                                         *)
(* Strings that are inspected character by character (catalog text, path   *)
(* segments, the query parameter) are sequences of code points, so that    *)
(* str.lower() and the substring test `query in text` are computed         *)
(* rather than assumed.  Fixed keys and literals of the program (attribute *)
(* keys, label values, endpoint names, HTTP methods) are TLA+ strings.     *)
(*                                                                         *)
(* Every request runs in a thread of its own (app.run serves threaded), so *)
(* the steps of different requests interleave.  A step of the model is one *)
(* statement, or one run of adjacent statements that touch only that       *)
(* request's own span, of a view function; the program counter values are  *)
(* named after the view function and the line of the step's first          *)
(* statement.  A thread that sleeps (time.sleep) waits at the program      *)
(* counter of the step that follows the sleep, so whatever it did before   *)
(* the sleep is visible to the other threads while it waits.  The length   *)
(* of a sleep and the value recorded in the histogram (a wall-clock        *)
(* difference) are not modelled: only the fact that a measurement with a   *)
(* given label set was recorded is.                                        *)
(***************************************************************************)
EXTENDS Integers, Sequences, FiniteSets, Bags, TLC

(***************************************************************************)
(* Bounds of the model.                                                    *)
(***************************************************************************)
\* number of requests (threads) of one run
MaxRequests == 2

(***************************************************************************)
(* Strings.  A Python string is a sequence of code points, and so it is    *)
(* here: "Lens" is <<76, 101, 110, 115>>.  The literals of the source are  *)
(* written with Encode, character by character.                            *)
(***************************************************************************)
\* the printable ASCII characters (all but the double quote 34, the
\* backslash 92 and the grave accent 96) and their code points
AsciiChars ==
  <<" ", "!", "#", "$", "%", "&", "'", "(", ")", "*", "+", ",", "-", ".",
    "/", "0", "1", "2", "3", "4", "5", "6", "7", "8", "9", ":", ";", "<",
    "=", ">", "?", "@", "A", "B", "C", "D", "E", "F", "G", "H", "I", "J",
    "K", "L", "M", "N", "O", "P", "Q", "R", "S", "T", "U", "V", "W", "X",
    "Y", "Z", "[", "]", "^", "_", "a", "b", "c", "d", "e", "f", "g", "h",
    "i", "j", "k", "l", "m", "n", "o", "p", "q", "r", "s", "t", "u", "v",
    "w", "x", "y", "z", "{", "|", "}", "~">>

AsciiCodes ==
  <<32, 33, 35, 36, 37, 38, 39, 40, 41, 42, 43, 44, 45, 46, 47, 48, 49, 50,
    51, 52, 53, 54, 55, 56, 57, 58, 59, 60, 61, 62, 63, 64, 65, 66, 67, 68,
    69, 70, 71, 72, 73, 74, 75, 76, 77, 78, 79, 80, 81, 82, 83, 84, 85, 86,
    87, 88, 89, 90, 91, 93, 94, 95, 97, 98, 99, 100, 101, 102, 103, 104, 105,
    106, 107, 108, 109, 110, 111, 112, 113, 114, 115, 116, 117, 118, 119,
    120, 121, 122, 123, 124, 125, 126>>

\* ord()
Ord ==
  [c \in { AsciiChars[i] : i \in DOMAIN AsciiChars } |->
     AsciiCodes[CHOOSE i \in DOMAIN AsciiChars : AsciiChars[i] = c]]

\* a string literal of the source, given by its characters
Encode(chars) == [i \in 1..Len(chars) |-> Ord[chars[i]]]

\* str.lower() on the characters that have a lower-case form of one other
\* character, as runs <<first, last, step, delta>>: each code point first,
\* first + step, ..., last becomes the code point delta further on (Unicode
\* 14.0.0, the character database of the interpreter).  GREEK CAPITAL
\* LETTER SIGMA (931) is given the form it takes when it does not end a word.
LowerRuns ==
  <<<<65,90,1,32>>, <<192,214,1,32>>, <<216,222,1,32>>, <<256,302,2,1>>,
    <<306,310,2,1>>, <<313,327,2,1>>, <<330,374,2,1>>, <<376,376,1,-121>>,
    <<377,381,2,1>>, <<385,385,1,210>>, <<386,388,2,1>>, <<390,390,1,206>>,
    <<391,391,1,1>>, <<393,394,1,205>>, <<395,395,1,1>>, <<398,398,1,79>>,
    <<399,399,1,202>>, <<400,400,1,203>>, <<401,401,1,1>>, <<403,403,1,205>>,
    <<404,404,1,207>>, <<406,406,1,211>>, <<407,407,1,209>>, <<408,408,1,1>>,
    <<412,412,1,211>>, <<413,413,1,213>>, <<415,415,1,214>>, <<416,420,2,1>>,
    <<422,422,1,218>>, <<423,423,1,1>>, <<425,425,1,218>>, <<428,428,1,1>>,
    <<430,430,1,218>>, <<431,431,1,1>>, <<433,434,1,217>>, <<435,437,2,1>>,
    <<439,439,1,219>>, <<440,440,1,1>>, <<444,444,1,1>>, <<452,452,1,2>>,
    <<453,453,1,1>>, <<455,455,1,2>>, <<456,456,1,1>>, <<458,458,1,2>>,
    <<459,475,2,1>>, <<478,494,2,1>>, <<497,497,1,2>>, <<498,500,2,1>>,
    <<502,502,1,-97>>, <<503,503,1,-56>>, <<504,542,2,1>>,
    <<544,544,1,-130>>, <<546,562,2,1>>, <<570,570,1,10795>>,
    <<571,571,1,1>>, <<573,573,1,-163>>, <<574,574,1,10792>>,
    <<577,577,1,1>>, <<579,579,1,-195>>, <<580,580,1,69>>, <<581,581,1,71>>,
    <<582,590,2,1>>, <<880,882,2,1>>, <<886,886,1,1>>, <<895,895,1,116>>,
    <<902,902,1,38>>, <<904,906,1,37>>, <<908,908,1,64>>, <<910,911,1,63>>,
    <<913,929,1,32>>, <<931,939,1,32>>, <<975,975,1,8>>, <<984,1006,2,1>>,
    <<1012,1012,1,-60>>, <<1015,1015,1,1>>, <<1017,1017,1,-7>>,
    <<1018,1018,1,1>>, <<1021,1023,1,-130>>, <<1024,1039,1,80>>,
    <<1040,1071,1,32>>, <<1120,1152,2,1>>, <<1162,1214,2,1>>,
    <<1216,1216,1,15>>, <<1217,1229,2,1>>, <<1232,1326,2,1>>,
    <<1329,1366,1,48>>, <<4256,4293,1,7264>>, <<4295,4295,1,7264>>,
    <<4301,4301,1,7264>>, <<5024,5103,1,38864>>, <<5104,5109,1,8>>,
    <<7312,7354,1,-3008>>, <<7357,7359,1,-3008>>, <<7680,7828,2,1>>,
    <<7838,7838,1,-7615>>, <<7840,7934,2,1>>, <<7944,7951,1,-8>>,
    <<7960,7965,1,-8>>, <<7976,7983,1,-8>>, <<7992,7999,1,-8>>,
    <<8008,8013,1,-8>>, <<8025,8031,2,-8>>, <<8040,8047,1,-8>>,
    <<8072,8079,1,-8>>, <<8088,8095,1,-8>>, <<8104,8111,1,-8>>,
    <<8120,8121,1,-8>>, <<8122,8123,1,-74>>, <<8124,8124,1,-9>>,
    <<8136,8139,1,-86>>, <<8140,8140,1,-9>>, <<8152,8153,1,-8>>,
    <<8154,8155,1,-100>>, <<8168,8169,1,-8>>, <<8170,8171,1,-112>>,
    <<8172,8172,1,-7>>, <<8184,8185,1,-128>>, <<8186,8187,1,-126>>,
    <<8188,8188,1,-9>>, <<8486,8486,1,-7517>>, <<8490,8490,1,-8383>>,
    <<8491,8491,1,-8262>>, <<8498,8498,1,28>>, <<8544,8559,1,16>>,
    <<8579,8579,1,1>>, <<9398,9423,1,26>>, <<11264,11311,1,48>>,
    <<11360,11360,1,1>>, <<11362,11362,1,-10743>>, <<11363,11363,1,-3814>>,
    <<11364,11364,1,-10727>>, <<11367,11371,2,1>>, <<11373,11373,1,-10780>>,
    <<11374,11374,1,-10749>>, <<11375,11375,1,-10783>>,
    <<11376,11376,1,-10782>>, <<11378,11378,1,1>>, <<11381,11381,1,1>>,
    <<11390,11391,1,-10815>>, <<11392,11490,2,1>>, <<11499,11501,2,1>>,
    <<11506,11506,1,1>>, <<42560,42604,2,1>>, <<42624,42650,2,1>>,
    <<42786,42798,2,1>>, <<42802,42862,2,1>>, <<42873,42875,2,1>>,
    <<42877,42877,1,-35332>>, <<42878,42886,2,1>>, <<42891,42891,1,1>>,
    <<42893,42893,1,-42280>>, <<42896,42898,2,1>>, <<42902,42920,2,1>>,
    <<42922,42922,1,-42308>>, <<42923,42923,1,-42319>>,
    <<42924,42924,1,-42315>>, <<42925,42925,1,-42305>>,
    <<42926,42926,1,-42308>>, <<42928,42928,1,-42258>>,
    <<42929,42929,1,-42282>>, <<42930,42930,1,-42261>>,
    <<42931,42931,1,928>>, <<42932,42946,2,1>>, <<42948,42948,1,-48>>,
    <<42949,42949,1,-42307>>, <<42950,42950,1,-35384>>, <<42951,42953,2,1>>,
    <<42960,42960,1,1>>, <<42966,42968,2,1>>, <<42997,42997,1,1>>,
    <<65313,65338,1,32>>, <<66560,66599,1,40>>, <<66736,66771,1,40>>,
    <<66928,66938,1,39>>, <<66940,66954,1,39>>, <<66956,66962,1,39>>,
    <<66964,66965,1,39>>, <<68736,68786,1,64>>, <<71840,71871,1,32>>,
    <<93760,93791,1,32>>, <<125184,125217,1,34>>>>

InRun(c, r) == r[1] <= c /\ c <= r[2] /\ (c - r[1]) % r[3] = 0

RunChars(r) == { c \in r[1]..r[2] : InRun(c, r) }

\* str.lower() on the characters it changes; LATIN CAPITAL LETTER I WITH
\* DOT ABOVE (304) becomes two characters, i and COMBINING DOT ABOVE
UpperToLower ==
  [c \in UNION { RunChars(LowerRuns[i]) : i \in DOMAIN LowerRuns } \cup {304} |->
     IF c = 304 THEN <<105, 775>>
     ELSE <<c + LowerRuns[CHOOSE i \in DOMAIN LowerRuns :
                            InRun(c, LowerRuns[i])][4]>>]

\* str.lower() on a string of one character: a string of one or two
\* characters
LowerChar(c) == IF c \in DOMAIN UpperToLower THEN UpperToLower[c] ELSE <<c>>

\* the characters with the property Cased, as ranges <<first, last>>
CasedRanges ==
  <<<<65,90>>, <<97,122>>, <<170,170>>, <<181,181>>, <<186,186>>,
    <<192,214>>, <<216,246>>, <<248,442>>, <<444,447>>, <<452,659>>,
    <<661,696>>, <<704,705>>, <<736,740>>, <<837,837>>, <<880,883>>,
    <<886,887>>, <<890,893>>, <<895,895>>, <<902,902>>, <<904,906>>,
    <<908,908>>, <<910,929>>, <<931,1013>>, <<1015,1153>>, <<1162,1327>>,
    <<1329,1366>>, <<1376,1416>>, <<4256,4293>>, <<4295,4295>>,
    <<4301,4301>>, <<4304,4346>>, <<4349,4351>>, <<5024,5109>>,
    <<5112,5117>>, <<7296,7304>>, <<7312,7354>>, <<7357,7359>>,
    <<7424,7615>>, <<7680,7957>>, <<7960,7965>>, <<7968,8005>>,
    <<8008,8013>>, <<8016,8023>>, <<8025,8025>>, <<8027,8027>>,
    <<8029,8029>>, <<8031,8061>>, <<8064,8116>>, <<8118,8124>>,
    <<8126,8126>>, <<8130,8132>>, <<8134,8140>>, <<8144,8147>>,
    <<8150,8155>>, <<8160,8172>>, <<8178,8180>>, <<8182,8188>>,
    <<8305,8305>>, <<8319,8319>>, <<8336,8348>>, <<8450,8450>>,
    <<8455,8455>>, <<8458,8467>>, <<8469,8469>>, <<8473,8477>>,
    <<8484,8484>>, <<8486,8486>>, <<8488,8488>>, <<8490,8493>>,
    <<8495,8500>>, <<8505,8505>>, <<8508,8511>>, <<8517,8521>>,
    <<8526,8526>>, <<8544,8575>>, <<8579,8580>>, <<9398,9449>>,
    <<11264,11492>>, <<11499,11502>>, <<11506,11507>>, <<11520,11557>>,
    <<11559,11559>>, <<11565,11565>>, <<42560,42605>>, <<42624,42653>>,
    <<42786,42887>>, <<42891,42894>>, <<42896,42954>>, <<42960,42961>>,
    <<42963,42963>>, <<42965,42969>>, <<42997,42998>>, <<43000,43002>>,
    <<43824,43866>>, <<43868,43880>>, <<43888,43967>>, <<64256,64262>>,
    <<64275,64279>>, <<65313,65338>>, <<65345,65370>>, <<66560,66639>>,
    <<66736,66771>>, <<66776,66811>>, <<66928,66938>>, <<66940,66954>>,
    <<66956,66962>>, <<66964,66965>>, <<66967,66977>>, <<66979,66993>>,
    <<66995,67001>>, <<67003,67004>>, <<67456,67456>>, <<67459,67461>>,
    <<67463,67504>>, <<67506,67514>>, <<68736,68786>>, <<68800,68850>>,
    <<71840,71903>>, <<93760,93823>>, <<119808,119892>>, <<119894,119964>>,
    <<119966,119967>>, <<119970,119970>>, <<119973,119974>>,
    <<119977,119980>>, <<119982,119993>>, <<119995,119995>>,
    <<119997,120003>>, <<120005,120069>>, <<120071,120074>>,
    <<120077,120084>>, <<120086,120092>>, <<120094,120121>>,
    <<120123,120126>>, <<120128,120132>>, <<120134,120134>>,
    <<120138,120144>>, <<120146,120485>>, <<120488,120512>>,
    <<120514,120538>>, <<120540,120570>>, <<120572,120596>>,
    <<120598,120628>>, <<120630,120654>>, <<120656,120686>>,
    <<120688,120712>>, <<120714,120744>>, <<120746,120770>>,
    <<120772,120779>>, <<122624,122633>>, <<122635,122654>>,
    <<125184,125251>>, <<127280,127305>>, <<127312,127337>>,
    <<127344,127369>>>>

CasedChars == UNION { CasedRanges[i][1]..CasedRanges[i][2] : i \in DOMAIN CasedRanges }

\* the characters with the property Case_Ignorable, as ranges <<first, last>>:
\* those str.lower() skips when it looks for the letters next to a capital
\* sigma
CaseIgnorableRanges ==
  <<<<39,39>>, <<46,46>>, <<58,58>>, <<94,94>>, <<96,96>>, <<168,168>>,
    <<173,173>>, <<175,175>>, <<180,180>>, <<183,184>>, <<688,879>>,
    <<884,885>>, <<890,890>>, <<900,901>>, <<903,903>>, <<1155,1161>>,
    <<1369,1369>>, <<1375,1375>>, <<1425,1469>>, <<1471,1471>>,
    <<1473,1474>>, <<1476,1477>>, <<1479,1479>>, <<1524,1524>>,
    <<1536,1541>>, <<1552,1562>>, <<1564,1564>>, <<1600,1600>>,
    <<1611,1631>>, <<1648,1648>>, <<1750,1757>>, <<1759,1768>>,
    <<1770,1773>>, <<1807,1807>>, <<1809,1809>>, <<1840,1866>>,
    <<1958,1968>>, <<2027,2037>>, <<2042,2042>>, <<2045,2045>>,
    <<2070,2093>>, <<2137,2139>>, <<2184,2184>>, <<2192,2193>>,
    <<2200,2207>>, <<2249,2306>>, <<2362,2362>>, <<2364,2364>>,
    <<2369,2376>>, <<2381,2381>>, <<2385,2391>>, <<2402,2403>>,
    <<2417,2417>>, <<2433,2433>>, <<2492,2492>>, <<2497,2500>>,
    <<2509,2509>>, <<2530,2531>>, <<2558,2558>>, <<2561,2562>>,
    <<2620,2620>>, <<2625,2626>>, <<2631,2632>>, <<2635,2637>>,
    <<2641,2641>>, <<2672,2673>>, <<2677,2677>>, <<2689,2690>>,
    <<2748,2748>>, <<2753,2757>>, <<2759,2760>>, <<2765,2765>>,
    <<2786,2787>>, <<2810,2815>>, <<2817,2817>>, <<2876,2876>>,
    <<2879,2879>>, <<2881,2884>>, <<2893,2893>>, <<2901,2902>>,
    <<2914,2915>>, <<2946,2946>>, <<3008,3008>>, <<3021,3021>>,
    <<3072,3072>>, <<3076,3076>>, <<3132,3132>>, <<3134,3136>>,
    <<3142,3144>>, <<3146,3149>>, <<3157,3158>>, <<3170,3171>>,
    <<3201,3201>>, <<3260,3260>>, <<3263,3263>>, <<3270,3270>>,
    <<3276,3277>>, <<3298,3299>>, <<3328,3329>>, <<3387,3388>>,
    <<3393,3396>>, <<3405,3405>>, <<3426,3427>>, <<3457,3457>>,
    <<3530,3530>>, <<3538,3540>>, <<3542,3542>>, <<3633,3633>>,
    <<3636,3642>>, <<3654,3662>>, <<3761,3761>>, <<3764,3772>>,
    <<3782,3782>>, <<3784,3789>>, <<3864,3865>>, <<3893,3893>>,
    <<3895,3895>>, <<3897,3897>>, <<3953,3966>>, <<3968,3972>>,
    <<3974,3975>>, <<3981,3991>>, <<3993,4028>>, <<4038,4038>>,
    <<4141,4144>>, <<4146,4151>>, <<4153,4154>>, <<4157,4158>>,
    <<4184,4185>>, <<4190,4192>>, <<4209,4212>>, <<4226,4226>>,
    <<4229,4230>>, <<4237,4237>>, <<4253,4253>>, <<4348,4348>>,
    <<4957,4959>>, <<5906,5908>>, <<5938,5939>>, <<5970,5971>>,
    <<6002,6003>>, <<6068,6069>>, <<6071,6077>>, <<6086,6086>>,
    <<6089,6099>>, <<6103,6103>>, <<6109,6109>>, <<6155,6159>>,
    <<6211,6211>>, <<6277,6278>>, <<6313,6313>>, <<6432,6434>>,
    <<6439,6440>>, <<6450,6450>>, <<6457,6459>>, <<6679,6680>>,
    <<6683,6683>>, <<6742,6742>>, <<6744,6750>>, <<6752,6752>>,
    <<6754,6754>>, <<6757,6764>>, <<6771,6780>>, <<6783,6783>>,
    <<6823,6823>>, <<6832,6862>>, <<6912,6915>>, <<6964,6964>>,
    <<6966,6970>>, <<6972,6972>>, <<6978,6978>>, <<7019,7027>>,
    <<7040,7041>>, <<7074,7077>>, <<7080,7081>>, <<7083,7085>>,
    <<7142,7142>>, <<7144,7145>>, <<7149,7149>>, <<7151,7153>>,
    <<7212,7219>>, <<7222,7223>>, <<7288,7293>>, <<7376,7378>>,
    <<7380,7392>>, <<7394,7400>>, <<7405,7405>>, <<7412,7412>>,
    <<7416,7417>>, <<7468,7530>>, <<7544,7544>>, <<7579,7679>>,
    <<8125,8125>>, <<8127,8129>>, <<8141,8143>>, <<8157,8159>>,
    <<8173,8175>>, <<8189,8190>>, <<8203,8207>>, <<8216,8217>>,
    <<8228,8228>>, <<8231,8231>>, <<8234,8238>>, <<8288,8292>>,
    <<8294,8303>>, <<8305,8305>>, <<8319,8319>>, <<8336,8348>>,
    <<8400,8432>>, <<11388,11389>>, <<11503,11505>>, <<11631,11631>>,
    <<11647,11647>>, <<11744,11775>>, <<11823,11823>>, <<12293,12293>>,
    <<12330,12333>>, <<12337,12341>>, <<12347,12347>>, <<12441,12446>>,
    <<12540,12542>>, <<40981,40981>>, <<42232,42237>>, <<42508,42508>>,
    <<42607,42610>>, <<42612,42621>>, <<42623,42623>>, <<42652,42655>>,
    <<42736,42737>>, <<42752,42785>>, <<42864,42864>>, <<42888,42890>>,
    <<42994,42996>>, <<43000,43001>>, <<43010,43010>>, <<43014,43014>>,
    <<43019,43019>>, <<43045,43046>>, <<43052,43052>>, <<43204,43205>>,
    <<43232,43249>>, <<43263,43263>>, <<43302,43309>>, <<43335,43345>>,
    <<43392,43394>>, <<43443,43443>>, <<43446,43449>>, <<43452,43453>>,
    <<43471,43471>>, <<43493,43494>>, <<43561,43566>>, <<43569,43570>>,
    <<43573,43574>>, <<43587,43587>>, <<43596,43596>>, <<43632,43632>>,
    <<43644,43644>>, <<43696,43696>>, <<43698,43700>>, <<43703,43704>>,
    <<43710,43711>>, <<43713,43713>>, <<43741,43741>>, <<43756,43757>>,
    <<43763,43764>>, <<43766,43766>>, <<43867,43871>>, <<43881,43883>>,
    <<44005,44005>>, <<44008,44008>>, <<44013,44013>>, <<64286,64286>>,
    <<64434,64450>>, <<65024,65039>>, <<65043,65043>>, <<65056,65071>>,
    <<65106,65106>>, <<65109,65109>>, <<65279,65279>>, <<65287,65287>>,
    <<65294,65294>>, <<65306,65306>>, <<65342,65342>>, <<65344,65344>>,
    <<65392,65392>>, <<65438,65439>>, <<65507,65507>>, <<65529,65531>>,
    <<66045,66045>>, <<66272,66272>>, <<66422,66426>>, <<67456,67461>>,
    <<67463,67504>>, <<67506,67514>>, <<68097,68099>>, <<68101,68102>>,
    <<68108,68111>>, <<68152,68154>>, <<68159,68159>>, <<68325,68326>>,
    <<68900,68903>>, <<69291,69292>>, <<69446,69456>>, <<69506,69509>>,
    <<69633,69633>>, <<69688,69702>>, <<69744,69744>>, <<69747,69748>>,
    <<69759,69761>>, <<69811,69814>>, <<69817,69818>>, <<69821,69821>>,
    <<69826,69826>>, <<69837,69837>>, <<69888,69890>>, <<69927,69931>>,
    <<69933,69940>>, <<70003,70003>>, <<70016,70017>>, <<70070,70078>>,
    <<70089,70092>>, <<70095,70095>>, <<70191,70193>>, <<70196,70196>>,
    <<70198,70199>>, <<70206,70206>>, <<70367,70367>>, <<70371,70378>>,
    <<70400,70401>>, <<70459,70460>>, <<70464,70464>>, <<70502,70508>>,
    <<70512,70516>>, <<70712,70719>>, <<70722,70724>>, <<70726,70726>>,
    <<70750,70750>>, <<70835,70840>>, <<70842,70842>>, <<70847,70848>>,
    <<70850,70851>>, <<71090,71093>>, <<71100,71101>>, <<71103,71104>>,
    <<71132,71133>>, <<71219,71226>>, <<71229,71229>>, <<71231,71232>>,
    <<71339,71339>>, <<71341,71341>>, <<71344,71349>>, <<71351,71351>>,
    <<71453,71455>>, <<71458,71461>>, <<71463,71467>>, <<71727,71735>>,
    <<71737,71738>>, <<71995,71996>>, <<71998,71998>>, <<72003,72003>>,
    <<72148,72151>>, <<72154,72155>>, <<72160,72160>>, <<72193,72202>>,
    <<72243,72248>>, <<72251,72254>>, <<72263,72263>>, <<72273,72278>>,
    <<72281,72283>>, <<72330,72342>>, <<72344,72345>>, <<72752,72758>>,
    <<72760,72765>>, <<72767,72767>>, <<72850,72871>>, <<72874,72880>>,
    <<72882,72883>>, <<72885,72886>>, <<73009,73014>>, <<73018,73018>>,
    <<73020,73021>>, <<73023,73029>>, <<73031,73031>>, <<73104,73105>>,
    <<73109,73109>>, <<73111,73111>>, <<73459,73460>>, <<78896,78904>>,
    <<92912,92916>>, <<92976,92982>>, <<92992,92995>>, <<94031,94031>>,
    <<94095,94111>>, <<94176,94177>>, <<94179,94180>>, <<110576,110579>>,
    <<110581,110587>>, <<110589,110590>>, <<113821,113822>>,
    <<113824,113827>>, <<118528,118573>>, <<118576,118598>>,
    <<119143,119145>>, <<119155,119170>>, <<119173,119179>>,
    <<119210,119213>>, <<119362,119364>>, <<121344,121398>>,
    <<121403,121452>>, <<121461,121461>>, <<121476,121476>>,
    <<121499,121503>>, <<121505,121519>>, <<122880,122886>>,
    <<122888,122904>>, <<122907,122913>>, <<122915,122916>>,
    <<122918,122922>>, <<123184,123197>>, <<123566,123566>>,
    <<123628,123631>>, <<125136,125142>>, <<125252,125259>>,
    <<127995,127999>>, <<917505,917505>>, <<917536,917631>>,
    <<917760,917999>>>>

CaseIgnorableChars ==
  UNION { CaseIgnorableRanges[i][1]..CaseIgnorableRanges[i][2] :
            i \in DOMAIN CaseIgnorableRanges }

\* str.lower() gives a capital sigma its final form when a cased letter
\* comes before it and none comes after it, case-ignorable characters
\* skipped on both sides
FinalSigma(s, i) ==
  /\ \E j \in 1..(i - 1) :
       /\ s[j] \in CasedChars \ CaseIgnorableChars
       /\ \A k \in (j + 1)..(i - 1) : s[k] \in CaseIgnorableChars
  /\ \A j \in (i + 1)..Len(s) :
       (\A k \in (i + 1)..(j - 1) : s[k] \in CaseIgnorableChars)
         => (s[j] \in CaseIgnorableChars \/ s[j] \notin CasedChars)

\* the lower-case form of the i-th character of s
LowerAt(s, i) ==
  IF s[i] = 931 /\ FinalSigma(s, i) THEN <<962>> ELSE LowerChar(s[i])

RECURSIVE LowerFrom(_, _)
LowerFrom(s, i) ==
  IF i > Len(s) THEN <<>> ELSE LowerAt(s, i) \o LowerFrom(s, i + 1)

\* str.lower(): the lower-case forms of the characters, one after another
\* (character for character when each of them has a one-character form)
Lower(s) ==
  IF \A i \in 1..Len(s) : s[i] # 304
    THEN [i \in 1..Len(s) |-> LowerAt(s, i)[1]]
    ELSE LowerFrom(s, 1)

\* the Python expression `q in s` for two strings
StrIn(q, s) ==
  \E i \in 0..(Len(s) - Len(q)) : SubSeq(s, i + 1, i + Len(q)) = q

\* the Python expression any(q in cat.lower() for cat in categories)
AnyCategory(q, categories) ==
  \E k \in DOMAIN categories : StrIn(q, Lower(categories[k]))

(***************************************************************************)
(* The catalog: the literal PRODUCTS of the source.                        *)
(***************************************************************************)
Product1 ==
  [id |-> Encode(<<"O","L","J","C","E","S","P","C","7","Z">>),
   name |-> Encode(<<"V","i","n","t","a","g","e"," ","T","y","p","e","w","r","i","t","e","r">>),
   description |->
      Encode(<<"T","h","i","s"," ","t","y","p","e","w","r","i","t","e","r"," ","l","o","o","k","s",
      " ","g","o","o","d"," ","i","n"," ","y","o","u","r"," ","l","i","v","i","n","g",
      " ","r","o","o","m",".">>),
   picture |->
      Encode(<<"/","s","t","a","t","i","c","/","i","m","g","/","p","r","o","d","u","c","t","s","/",
      "t","y","p","e","w","r","i","t","e","r",".","j","p","g">>),
   price_usd |-> [currency_code |-> Encode(<<"U","S","D">>), units |-> 67, nanos |-> 990000000],
   categories |-> <<Encode(<<"v","i","n","t","a","g","e">>)>>]

Product2 ==
  [id |-> Encode(<<"6","6","V","C","H","S","J","N","U","P">>),
   name |-> Encode(<<"V","i","n","t","a","g","e"," ","C","a","m","e","r","a"," ","L","e","n","s">>),
   description |->
      Encode(<<"Y","o","u"," ","w","o","n","'","t"," ","h","a","v","e"," ","a"," ","c","a","m","e",
      "r","a"," ","t","o"," ","u","s","e"," ","i","t"," ","a","n","d"," ","i","t"," ",
      "p","r","o","b","a","b","l","y"," ","d","o","e","s","n","'","t"," ","w","o","r",
      "k"," ","a","n","y","w","a","y",".">>),
   picture |->
      Encode(<<"/","s","t","a","t","i","c","/","i","m","g","/","p","r","o","d","u","c","t","s","/",
      "c","a","m","e","r","a","-","l","e","n","s",".","j","p","g">>),
   price_usd |-> [currency_code |-> Encode(<<"U","S","D">>), units |-> 12, nanos |-> 490000000],
   categories |-> <<Encode(<<"p","h","o","t","o","g","r","a","p","h","y">>), Encode(<<"v","i","n","t","a","g","e">>)>>]

Product3 ==
  [id |-> Encode(<<"1","Y","M","W","W","N","1","N","4","O">>),
   name |-> Encode(<<"H","o","m","e"," ","B","a","r","i","s","t","a"," ","K","i","t">>),
   description |->
      Encode(<<"A","l","w","a","y","s"," ","w","a","n","t","e","d"," ","t","o"," ","b","r","e","w",
      " ","c","o","f","f","e","e"," ","w","i","t","h"," ","C","h","e","m","e","x"," ",
      "a","n","d"," ","A","e","r","o","p","r","e","s","s"," ","a","t"," ","h","o","m",
      "e","?">>),
   picture |->
      Encode(<<"/","s","t","a","t","i","c","/","i","m","g","/","p","r","o","d","u","c","t","s","/",
      "b","a","r","i","s","t","a","-","k","i","t",".","j","p","g">>),
   price_usd |-> [currency_code |-> Encode(<<"U","S","D">>), units |-> 124, nanos |-> 0],
   categories |-> <<Encode(<<"k","i","t","c","h","e","n">>)>>]

Product4 ==
  [id |-> Encode(<<"L","9","E","C","A","V","7","K","I","M">>),
   name |-> Encode(<<"T","e","r","r","a","r","i","u","m">>),
   description |->
      Encode(<<"T","h","i","s"," ","t","e","r","r","a","r","i","u","m"," ","w","i","l","l"," ","l",
      "o","o","k","s"," ","g","r","e","a","t"," ","i","n"," ","y","o","u","r"," ","w",
      "h","i","t","e"," ","p","a","i","n","t","e","d"," ","l","i","v","i","n","g"," ",
      "r","o","o","m",".">>),
   picture |->
      Encode(<<"/","s","t","a","t","i","c","/","i","m","g","/","p","r","o","d","u","c","t","s","/",
      "t","e","r","r","a","r","i","u","m",".","j","p","g">>),
   price_usd |-> [currency_code |-> Encode(<<"U","S","D">>), units |-> 36, nanos |-> 450000000],
   categories |-> <<Encode(<<"g","a","r","d","e","n","i","n","g">>)>>]

Product5 ==
  [id |-> Encode(<<"2","Z","Y","F","J","3","G","M","2","N">>),
   name |-> Encode(<<"F","i","l","m"," ","C","a","m","e","r","a">>),
   description |->
      Encode(<<"T","h","i","s"," ","c","a","m","e","r","a"," ","l","o","o","k","s"," ","l","i","k",
      "e"," ","i","t","'","s"," ","a"," ","f","i","l","m"," ","c","a","m","e","r","a",
      ","," ","b","u","t"," ","i","t","'","s"," ","a","c","t","u","a","l","l","y"," ",
      "d","i","g","i","t","a","l",".">>),
   picture |->
      Encode(<<"/","s","t","a","t","i","c","/","i","m","g","/","p","r","o","d","u","c","t","s","/",
      "f","i","l","m","-","c","a","m","e","r","a",".","j","p","g">>),
   price_usd |-> [currency_code |-> Encode(<<"U","S","D">>), units |-> 2245, nanos |-> 0],
   categories |-> <<Encode(<<"p","h","o","t","o","g","r","a","p","h","y">>), Encode(<<"v","i","n","t","a","g","e">>)>>]

InitialProducts == <<Product1, Product2, Product3, Product4, Product5>>

\* Python's None
None == [none |-> TRUE]


(***************************************************************************)
(* Requests.  A request is its HTTP method, the segments of its path and   *)
(* its query arguments (a function from argument names to strings; the     *)
(* empty function when the request has none).                              *)
(***************************************************************************)
NoArgs == <<>>

QArg(q) == [k \in {"q"} |-> q]

SegHealth == Encode(<<"h","e","a","l","t","h">>)

SegProducts == Encode(<<"p","r","o","d","u","c","t","s">>)

SegSearch == Encode(<<"s","e","a","r","c","h">>)

\* identifiers sent in the path of /products/<product_id>: the five catalog
\* ids, a catalog id in lower case, an unknown id and the word "search"
UnknownId == Encode(<<"D","O","E","S","_","N","O","T","_","E","X","I","S","T">>)

PathIds ==
  { InitialProducts[i].id : i \in DOMAIN InitialProducts } \cup
  { Lower(Product1.id), UnknownId, SegSearch }

\* values of the q argument: empty, a word in two spellings, a word found in
\* a category only, in a description only, in a name only (mixed case), in
\* nothing, a single blank; then queries with characters outside ASCII: the
\* category word spelled with KELVIN SIGN (8490), a capital E with acute
\* accent (201), a capital I with dot above (304) and the small i, a micro
\* sign followed by a capital sigma (181, 931)
Queries ==
  { <<>>, Encode(<<"v","i","n","t","a","g","e">>),
    Encode(<<"V","I","N","T","A","G","E">>),
    Encode(<<"k","i","t","c","h","e","n">>),
    Encode(<<"d","i","g","i","t","a","l">>),
    Encode(<<"L","e","n","s">>),
    Encode(<<"z","z">>),
    Encode(<<" ">>),
    <<8490>> \o Encode(<<"i","t","c","h","e","n">>),
    <<201>>,
    <<304>>,
    Encode(<<"i">>),
    <<181, 931>> }

GetRequests ==
  { [method |-> "GET", path |-> <<SegHealth>>, args |-> NoArgs],
    [method |-> "GET", path |-> <<SegProducts>>, args |-> NoArgs] } \cup
  { [method |-> "GET", path |-> <<SegProducts, x>>, args |-> NoArgs] : x \in PathIds } \cup
  { [method |-> "GET", path |-> <<SegProducts, SegSearch>>, args |-> QArg(q)] : q \in Queries }

\* the routes are registered without a methods argument, so each also
\* serves HEAD with the same view function
HeadRequests ==
  { [method |-> "HEAD", path |-> <<SegProducts>>, args |-> NoArgs],
    [method |-> "HEAD", path |-> <<SegProducts, Product1.id>>, args |-> NoArgs],
    [method |-> "HEAD", path |-> <<SegHealth>>, args |-> NoArgs] }

Requests == GetRequests \cup HeadRequests

\* the requests that arrive while another request is being served, and the
\* requests served when telemetry calls may raise: one per outcome of each
\* view function
OverlapRequests ==
  { [method |-> "GET", path |-> <<SegHealth>>, args |-> NoArgs],
    [method |-> "GET", path |-> <<SegProducts>>, args |-> NoArgs],
    [method |-> "GET", path |-> <<SegProducts, Product1.id>>, args |-> NoArgs],
    [method |-> "GET", path |-> <<SegProducts, UnknownId>>, args |-> NoArgs],
    [method |-> "GET", path |-> <<SegProducts, SegSearch>>,
     args |-> QArg(Encode(<<"V","I","N","T","A","G","E">>))] }

Threads == 1..MaxRequests

(***************************************************************************)
(* Routing: the four @app.route rules.  A rule whose segment is a literal  *)
(* is preferred to the rule with the <product_id> converter, so the path   *)
(* /products/search belongs to search_products.                            *)
(***************************************************************************)
route(path) ==
  IF path = <<SegHealth>> THEN "health_check"
  ELSE IF path = <<SegProducts>> THEN "list_products"
  ELSE IF Len(path) = 2 /\ path[1] = SegProducts /\ path[2] = SegSearch
    THEN "search_products"
  ELSE IF Len(path) = 2 /\ path[1] = SegProducts /\ Len(path[2]) > 0
    THEN "get_product"
  ELSE "not_routed"

\* the first statement of each view function
Entry(endpoint) ==
  CASE endpoint = "health_check" -> "health_134"
    [] endpoint = "list_products" -> "list_139"
    [] endpoint = "get_product" -> "get_164"
    [] endpoint = "search_products" -> "search_205"

\* request.url, kept as the pair of path and arguments
Url(r) == [path |-> r.path, args |-> r.args]

\* request.args.get(key, default)
ArgsGet(args, key, default) ==
  IF key \in DOMAIN args THEN args[key] ELSE default

(***************************************************************************)
(* The catalog queries of the view functions.                              *)
(***************************************************************************)
\* FindProduct comparing the ids without regard to letter case
FindProductIgnoreCase(products, product_id) ==
  IF \E i \in DOMAIN products : Lower(products[i].id) = Lower(product_id)
    THEN products[CHOOSE i \in DOMAIN products :
                    /\ Lower(products[i].id) = Lower(product_id)
                    /\ \A j \in 1..(i - 1) :
                         Lower(products[j].id) # Lower(product_id)]
    ELSE None

\* FindProduct as a loop that does not stop at the match and returns the
\* loop variable
FindProductLoopVariable(products, product_id) ==
  IF \E i \in DOMAIN products : products[i].id = product_id
    THEN products[Len(products)]
    ELSE None

\* next((p for p in PRODUCTS if p["id"] == product_id), None)
FindProduct(products, product_id) ==
  IF \E i \in DOMAIN products : products[i].id = product_id
    THEN products[CHOOSE i \in DOMAIN products :
                    /\ products[i].id = product_id
                    /\ \A j \in 1..(i - 1) : products[j].id # product_id]
    ELSE None

\* Matches without the test of the categories
MatchesNameOrDescription(query, p) ==
  \/ StrIn(query, Lower(p.name))
  \/ StrIn(query, Lower(p.description))

\* the condition of the list comprehension of search_products
Matches(query, p) ==
  \/ StrIn(query, Lower(p.name))
  \/ StrIn(query, Lower(p.description))
  \/ AnyCategory(query, p.categories)

\* filtered_products
FilterProducts(products, query) ==
  IF query # <<>>
    THEN LET Test(p) == Matches(query, p) IN SelectSeq(products, Test)
    ELSE products

(***************************************************************************)
(* Telemetry.  A span is a record of its name, the attributes set on it in *)
(* the order of the set_attribute calls, and the number of times it was    *)
(* ended.  The counter and the histogram are bags of label sets.           *)
(***************************************************************************)
\* tracer.start_as_current_span(name)
StartSpan(name) == [name |-> name, attributes |-> <<>>, ended |-> 0]

\* span.set_attribute for each pair of attrs, in order
SetAttributes(sp, attrs) == [sp EXCEPT !.attributes = @ \o attrs]

\* leaving the with block
EndSpan(sp) == [sp EXCEPT !.ended = @ + 1]

\* Record that notes a label set once, however often it is recorded
RecordOnce(metric, labels) ==
  IF BagIn(labels, metric) THEN metric ELSE metric (+) SetToBag({labels})

\* request_counter.add(1, labels) and request_duration.record(_, labels)
Record(metric, labels) == metric (+) SetToBag({labels})

ListLabels == [endpoint |-> "/products", method |-> "GET"]

GetLabels(product) ==
  [endpoint |-> "/products/{id}", method |-> "GET",
   status |-> IF product # None THEN "found" ELSE "not_found"]

SearchLabels == [endpoint |-> "/products/search", method |-> "GET"]

ListCountAttributes(products) ==
  << <<"product.count", Len(products)>> >>

ListRequestAttributes(r) ==
  << <<"http.method", r.method>>,
     <<"http.url", Url(r)>> >>

GetRequestAttributes(r) ==
  << <<"product.id", r.path[2]>>,
     <<"http.method", r.method>>,
     <<"http.url", Url(r)>> >>

GetResultAttributes(product) ==
  IF product # None
    THEN << <<"product.found", TRUE>>, <<"product.name", product.name>> >>
    ELSE << <<"product.found", FALSE>>, <<"error", TRUE>> >>

SearchRequestAttributes(r, query) ==
  << <<"search.query", query>>,
     <<"http.method", r.method>>,
     <<"http.url", Url(r)>> >>

SearchResultAttributes(filtered) ==
  << <<"search.results_count", Len(filtered)>> >>

\* as many "attribute-set" steps as there are attributes
AttributeEvents(attrs) == [i \in 1..Len(attrs) |-> "attribute-set"]

(***************************************************************************)
(* Responses: the status and the object handed to jsonify.                 *)
(***************************************************************************)
Response(status, body) == [status |-> status, body |-> body]

HealthBody == [status |-> "healthy", service |-> "productcatalog"]

ListBody(products) == [products |-> products]

NotFoundBody == [error |-> "Product not found"]

SearchBody(query, filtered) ==
  [query |-> query, products |-> filtered, total |-> Len(filtered)]

\* what Flask answers when a view function raises
ServerError == Response(500, [page |-> "Internal Server Error"])

(***************************************************************************)
(* State.                                                                  *)
(***************************************************************************)
VARIABLES
  PRODUCTS,           \* the module-level list of products
  request_counter,    \* bag of the label sets passed to request_counter.add
  request_duration,   \* bag of the label sets passed to request_duration.record
  pc,                 \* per thread: "idle", the step it is about to take, "done"
  req,                \* per thread: the request it serves
  query,              \* per thread: local variable query of search_products
  product,            \* per thread: local variable product of get_product
  filtered_products,  \* per thread: local variable filtered_products
  span,               \* per thread: the span of its with block, None before
  resp,               \* per thread: the response, None before the return
  measured,           \* per thread: the label sets it recorded, per instrument
  events              \* per thread: the steps it has taken, in order

vars ==
  << PRODUCTS, request_counter, request_duration, pc, req, query, product,
     filtered_products, span, resp, measured, events >>

\* a local variable that has not been assigned
Unset == [unset |-> TRUE]

NoMeasurements == [counter |-> <<>>, duration |-> <<>>]

Init ==
  /\ PRODUCTS = InitialProducts
  /\ request_counter = EmptyBag
  /\ request_duration = EmptyBag
  /\ pc = [t \in Threads |-> "idle"]
  /\ req = [t \in Threads |-> None]
  /\ query = [t \in Threads |-> Unset]
  /\ product = [t \in Threads |-> Unset]
  /\ filtered_products = [t \in Threads |-> Unset]
  /\ span = [t \in Threads |-> None]
  /\ resp = [t \in Threads |-> None]
  /\ measured = [t \in Threads |-> NoMeasurements]
  /\ events = [t \in Threads |-> <<>>]

\* AssignLocal for a variable that all threads share (a module-level global)
AssignGlobal(locals, t, value) == [u \in DOMAIN locals |-> value]

\* assignment to a local variable of the view function running in thread t
AssignLocal(locals, t, value) == [locals EXCEPT ![t] = value]

\* thread t moves to step next, having taken the steps evs
Goto(t, next, evs) ==
  /\ pc' = [pc EXCEPT ![t] = next]
  /\ events' = [events EXCEPT ![t] = @ \o evs]

\* request_counter.add(1, labels) by thread t
CounterAdd(t, labels) ==
  /\ request_counter' = Record(request_counter, labels)
  /\ measured' = [measured EXCEPT ![t].counter = Append(@, labels)]

\* request_duration.record(duration, labels) by thread t
DurationRecord(t, labels) ==
  /\ request_duration' = Record(request_duration, labels)
  /\ measured' = [measured EXCEPT ![t].duration = Append(@, labels)]

\* Return that leaves the span open (a span ended by hand, not by a with block)
ReturnWithoutEnd(t, response) ==
  /\ resp' = [resp EXCEPT ![t] = response]
  /\ span' = span

\* `return response` inside the with block: the response is built, then the
\* block is left and the span ended
Return(t, response) ==
  /\ resp' = [resp EXCEPT ![t] = response]
  /\ span' = [span EXCEPT ![t] = EndSpan(@)]

(***************************************************************************)
(* Arrival of a request: the server hands it to a new thread, which enters *)
(* the view function of the matching route.  Threads are taken in order.   *)
(* Any request of Requests may arrive while the server is quiet; one that  *)
(* arrives while another is being served is one of OverlapRequests.        *)
(***************************************************************************)
\* thread u is inside a view function
InFlight(u) == pc[u] \notin {"idle", "done"}

Receive(t, r) ==
  /\ pc[t] = "idle"
  /\ \A u \in Threads : u < t => pc[u] # "idle"
  /\ (\E u \in Threads : InFlight(u)) => r \in OverlapRequests
  /\ route(r.path) # "not_routed"
  /\ req' = [req EXCEPT ![t] = r]
  /\ Goto(t, Entry(route(r.path)), <<"received">>)
  /\ UNCHANGED << PRODUCTS, request_counter, request_duration, query, product,
                  filtered_products, span, resp, measured >>

(***************************************************************************)
(* health_check                                                            *)
(***************************************************************************)
health_134(t) ==
  /\ pc[t] = "health_134"
  /\ resp' = [resp EXCEPT ![t] = Response(200, HealthBody)]
  /\ Goto(t, "done", <<"response-emitted">>)
  /\ UNCHANGED << PRODUCTS, request_counter, request_duration, req, query,
                  product, filtered_products, span, measured >>

(***************************************************************************)
(* list_products                                                           *)
(***************************************************************************)
list_139(t) ==
  /\ pc[t] = "list_139"
  /\ span' = [span EXCEPT ![t] = StartSpan("list_products")]
  /\ Goto(t, "list_142", <<"span-started">>)
  /\ UNCHANGED << PRODUCTS, request_counter, request_duration, req, query,
                  product, filtered_products, resp, measured >>

\* line 142: len(PRODUCTS) is read, then product.count is set; the thread
\* then waits in the sleep of line 145
list_142(t) ==
  /\ pc[t] = "list_142"
  /\ LET attrs == ListCountAttributes(PRODUCTS) IN
       /\ span' = [span EXCEPT ![t] = SetAttributes(@, attrs)]
       /\ Goto(t, "list_145", <<"store-queried">> \o AttributeEvents(attrs))
  /\ UNCHANGED << PRODUCTS, request_counter, request_duration, req, query,
                  product, filtered_products, resp, measured >>

\* lines 145 to 149: the sleep is over, http.method and http.url are set
list_145(t) ==
  /\ pc[t] = "list_145"
  /\ LET attrs == ListRequestAttributes(req[t]) IN
       /\ span' = [span EXCEPT ![t] = SetAttributes(@, attrs)]
       /\ Goto(t, "list_152", AttributeEvents(attrs))
  /\ UNCHANGED << PRODUCTS, request_counter, request_duration, req, query,
                  product, filtered_products, resp, measured >>

list_152(t) ==
  /\ pc[t] = "list_152"
  /\ CounterAdd(t, ListLabels)
  /\ Goto(t, "list_154", <<"counter-recorded">>)
  /\ UNCHANGED << PRODUCTS, request_duration, req, query, product,
                  filtered_products, span, resp >>

list_154(t) ==
  /\ pc[t] = "list_154"
  /\ DurationRecord(t, ListLabels)
  /\ Goto(t, "list_157", <<"duration-recorded">>)
  /\ UNCHANGED << PRODUCTS, request_counter, req, query, product,
                  filtered_products, span, resp >>

list_157(t) ==
  /\ pc[t] = "list_157"
  /\ Return(t, Response(200, ListBody(PRODUCTS)))
  /\ Goto(t, "done", <<"store-queried", "response-emitted", "span-ended">>)
  /\ UNCHANGED << PRODUCTS, request_counter, request_duration, req, query,
                  product, filtered_products, measured >>

(***************************************************************************)
(* get_product                                                             *)
(***************************************************************************)
get_164(t) ==
  /\ pc[t] = "get_164"
  /\ span' = [span EXCEPT ![t] = StartSpan("get_product")]
  /\ Goto(t, "get_167", <<"span-started">>)
  /\ UNCHANGED << PRODUCTS, request_counter, request_duration, req, query,
                  product, filtered_products, resp, measured >>

get_167(t) ==
  /\ pc[t] = "get_167"
  /\ LET attrs == GetRequestAttributes(req[t]) IN
       /\ span' = [span EXCEPT ![t] = SetAttributes(@, attrs)]
       /\ Goto(t, "get_172", AttributeEvents(attrs))
  /\ UNCHANGED << PRODUCTS, request_counter, request_duration, req, query,
                  product, filtered_products, resp, measured >>

get_172(t) ==
  /\ pc[t] = "get_172"
  /\ product' = AssignLocal(product, t, FindProduct(PRODUCTS, req[t].path[2]))
  /\ Goto(t, "get_177", <<"store-queried">>)
  /\ UNCHANGED << PRODUCTS, request_counter, request_duration, req, query,
                  filtered_products, span, resp, measured >>

get_177(t) ==
  /\ pc[t] = "get_177"
  /\ LET attrs == GetResultAttributes(product[t]) IN
       /\ span' = [span EXCEPT ![t] = SetAttributes(@, attrs)]
       /\ Goto(t, "get_182", AttributeEvents(attrs))
  /\ UNCHANGED << PRODUCTS, request_counter, request_duration, req, query,
                  product, filtered_products, resp, measured >>

get_182(t) ==
  /\ pc[t] = "get_182"
  /\ CounterAdd(t, GetLabels(product[t]))
  /\ Goto(t, "get_184", <<"counter-recorded">>)
  /\ UNCHANGED << PRODUCTS, request_duration, req, query, product,
                  filtered_products, span, resp >>

\* get_184 followed by one more set_attribute call
get_184_then_attribute(t) ==
  /\ pc[t] = "get_184"
  /\ DurationRecord(t, GetLabels(product[t]))
  /\ span' = [span EXCEPT ![t] = SetAttributes(@, << <<"duration", 0>> >>)]
  /\ Goto(t, "get_187", <<"duration-recorded", "attribute-set">>)
  /\ UNCHANGED << PRODUCTS, request_counter, req, query, product,
                  filtered_products, resp >>

get_184(t) ==
  /\ pc[t] = "get_184"
  /\ DurationRecord(t, GetLabels(product[t]))
  /\ Goto(t, "get_187", <<"duration-recorded">>)
  /\ UNCHANGED << PRODUCTS, request_counter, req, query, product,
                  filtered_products, span, resp >>

get_187(t) ==
  /\ pc[t] = "get_187"
  /\ Return(t, IF product[t] # None
                 THEN Response(200, product[t])
                 ELSE Response(404, NotFoundBody))
  /\ Goto(t, "done", <<"response-emitted", "span-ended">>)
  /\ UNCHANGED << PRODUCTS, request_counter, request_duration, req, query,
                  product, filtered_products, measured >>

(***************************************************************************)
(* search_products                                                         *)
(***************************************************************************)
\* search_205 without the call of lower()
search_205_as_typed(t) ==
  /\ pc[t] = "search_205"
  /\ query' = AssignLocal(query, t, ArgsGet(req[t].args, "q", <<>>))
  /\ span' = [span EXCEPT ![t] = StartSpan("search_products")]
  /\ Goto(t, "search_209", <<"span-started">>)
  /\ UNCHANGED << PRODUCTS, request_counter, request_duration, req, product,
                  filtered_products, resp, measured >>

search_205(t) ==
  /\ pc[t] = "search_205"
  /\ query' = AssignLocal(query, t, Lower(ArgsGet(req[t].args, "q", <<>>)))
  /\ span' = [span EXCEPT ![t] = StartSpan("search_products")]
  /\ Goto(t, "search_209", <<"span-started">>)
  /\ UNCHANGED << PRODUCTS, request_counter, request_duration, req, product,
                  filtered_products, resp, measured >>

search_209(t) ==
  /\ pc[t] = "search_209"
  /\ LET attrs == SearchRequestAttributes(req[t], query[t]) IN
       /\ span' = [span EXCEPT ![t] = SetAttributes(@, attrs)]
       /\ Goto(t, "search_214", AttributeEvents(attrs))
  /\ UNCHANGED << PRODUCTS, request_counter, request_duration, req, query,
                  product, filtered_products, resp, measured >>

\* the list s in reverse order
Reverse(s) == [i \in 1..Len(s) |-> s[Len(s) + 1 - i]]

\* search_214 followed by filtered_products.reverse(): with an empty query
\* filtered_products is the list PRODUCTS itself
search_214_reversing(t) ==
  /\ pc[t] = "search_214"
  /\ filtered_products' =
       AssignLocal(filtered_products, t,
                   Reverse(FilterProducts(PRODUCTS, query[t])))
  /\ PRODUCTS' = IF query[t] = <<>> THEN Reverse(PRODUCTS) ELSE PRODUCTS
  /\ Goto(t, "search_227", <<"store-queried">>)
  /\ UNCHANGED << request_counter, request_duration, req, query,
                  product, span, resp, measured >>

search_214(t) ==
  /\ pc[t] = "search_214"
  /\ filtered_products' =
       AssignLocal(filtered_products, t, FilterProducts(PRODUCTS, query[t]))
  /\ Goto(t, "search_227", <<"store-queried">>)
  /\ UNCHANGED << PRODUCTS, request_counter, request_duration, req, query,
                  product, span, resp, measured >>

search_227(t) ==
  /\ pc[t] = "search_227"
  /\ LET attrs == SearchResultAttributes(filtered_products[t]) IN
       /\ span' = [span EXCEPT ![t] = SetAttributes(@, attrs)]
       /\ Goto(t, "search_230", AttributeEvents(attrs))
  /\ UNCHANGED << PRODUCTS, request_counter, request_duration, req, query,
                  product, filtered_products, resp, measured >>

search_230(t) ==
  /\ pc[t] = "search_230"
  /\ CounterAdd(t, SearchLabels)
  /\ Goto(t, "search_232", <<"counter-recorded">>)
  /\ UNCHANGED << PRODUCTS, request_duration, req, query, product,
                  filtered_products, span, resp >>

search_232(t) ==
  /\ pc[t] = "search_232"
  /\ DurationRecord(t, SearchLabels)
  /\ Goto(t, "search_235", <<"duration-recorded">>)
  /\ UNCHANGED << PRODUCTS, request_counter, req, query, product,
                  filtered_products, span, resp >>

search_235(t) ==
  /\ pc[t] = "search_235"
  /\ Return(t, Response(200, SearchBody(query[t], filtered_products[t])))
  /\ Goto(t, "done", <<"response-emitted", "span-ended">>)
  /\ UNCHANGED << PRODUCTS, request_counter, request_duration, req, query,
                  product, filtered_products, measured >>

(***************************************************************************)
(* The service.                                                            *)
(***************************************************************************)
Step(t) ==
  \/ health_134(t)
  \/ list_139(t) \/ list_142(t) \/ list_145(t) \/ list_152(t)
  \/ list_154(t) \/ list_157(t)
  \/ get_164(t) \/ get_167(t) \/ get_172(t) \/ get_177(t) \/ get_182(t)
  \/ get_184(t) \/ get_187(t)
  \/ search_205(t) \/ search_209(t) \/ search_214(t) \/ search_227(t)
  \/ search_230(t) \/ search_232(t) \/ search_235(t)

Next ==
  \/ \E t \in Threads, r \in Requests : Receive(t, r)
  \/ \E t \in Threads : Step(t)

Spec == Init /\ [][Next]_vars

(***************************************************************************)
(* The service when a telemetry call raises.  The view functions call the  *)
(* tracer, the span, the counter and the histogram directly, with no try   *)
(* statement around the calls: an exception raised by one of them leaves   *)
(* the with block (which ends the span, if the block had been entered)     *)
(* and the view function, and the client is answered with ServerError.     *)
(***************************************************************************)
\* steps whose call starts the span: the with block is not yet entered
SpanStartSteps == {"list_139", "get_164", "search_205"}

\* steps that call request_counter.add or request_duration.record
MetricSteps ==
  {"list_152", "list_154", "get_182", "get_184", "search_230", "search_232"}

\* the attributes that the set_attribute calls of thread t's step would set
PendingAttributes(t) ==
  CASE pc[t] = "list_142" -> ListCountAttributes(PRODUCTS)
    [] pc[t] = "list_145" -> ListRequestAttributes(req[t])
    [] pc[t] = "get_167" -> GetRequestAttributes(req[t])
    [] pc[t] = "get_177" -> GetResultAttributes(product[t])
    [] pc[t] = "search_209" -> SearchRequestAttributes(req[t], query[t])
    [] pc[t] = "search_227" -> SearchResultAttributes(filtered_products[t])
    [] OTHER -> <<>>

\* the exception leaves the view function: 500, and the thread is finished
Propagate(t, evs) ==
  /\ resp' = [resp EXCEPT ![t] = ServerError]
  /\ Goto(t, "done", evs \o <<"raised">>)

\* tracer.start_as_current_span raises
RaiseAtSpanStart(t) ==
  /\ pc[t] \in SpanStartSteps
  /\ query' = IF pc[t] = "search_205"
                THEN AssignLocal(query, t, Lower(ArgsGet(req[t].args, "q", <<>>)))
                ELSE query
  /\ Propagate(t, <<>>)
  /\ UNCHANGED << PRODUCTS, request_counter, request_duration, req, product,
                  filtered_products, span, measured >>

\* what the step does before its first set_attribute call: at line 142 the
\* argument len(PRODUCTS) is evaluated before the call is made
BeforeAttributes(t) ==
  IF pc[t] = "list_142" THEN <<"store-queried">> ELSE <<>>

\* the (k+1)-th set_attribute call of the step raises
RaiseAtSetAttribute(t) ==
  /\ PendingAttributes(t) # <<>>
  /\ \E k \in 0..(Len(PendingAttributes(t)) - 1) :
       LET attrs == SubSeq(PendingAttributes(t), 1, k) IN
         /\ span' = [span EXCEPT ![t] = EndSpan(SetAttributes(@, attrs))]
         /\ Propagate(t, BeforeAttributes(t) \o AttributeEvents(attrs)
                            \o <<"span-ended">>)
  /\ UNCHANGED << PRODUCTS, request_counter, request_duration, req, query,
                  product, filtered_products, measured >>

\* request_counter.add or request_duration.record raises
RaiseAtMetric(t) ==
  /\ pc[t] \in MetricSteps
  /\ span' = [span EXCEPT ![t] = EndSpan(@)]
  /\ Propagate(t, <<"span-ended">>)
  /\ UNCHANGED << PRODUCTS, request_counter, request_duration, req, query,
                  product, filtered_products, measured >>

NextFault ==
  \/ \E t \in Threads, r \in OverlapRequests : Receive(t, r)
  \/ \E t \in Threads : Step(t)
  \/ \E t \in Threads : RaiseAtSpanStart(t)
  \/ \E t \in Threads : RaiseAtSetAttribute(t)
  \/ \E t \in Threads : RaiseAtMetric(t)

SpecFault == Init /\ [][NextFault]_vars

(***************************************************************************)
(* Properties.                                                             *)
(***************************************************************************)
Done(t) == pc[t] = "done"

Endpoint(t) == route(req[t].path)

\* no thread is in the middle of a view function
Quiescent == \A t \in Threads : pc[t] \in {"idle", "done"}

CatalogIds == { InitialProducts[i].id : i \in DOMAIN InitialProducts }

\* a request of the form /products/x
IsByIdPath(path) == Len(path) = 2 /\ path[1] = SegProducts

\* the q argument as the client sent it, empty when absent
QueryOf(r) == IF "q" \in DOMAIN r.args THEN r.args["q"] ELSE <<>>

\* the response of the view function for request r over the start-up
\* catalog, when r is served alone and every telemetry call returns
ExpectedResponse(r) ==
  LET e == route(r.path) IN
    CASE e = "health_check" -> Response(200, HealthBody)
      [] e = "list_products" -> Response(200, ListBody(InitialProducts))
      [] e = "get_product" ->
           LET p == FindProduct(InitialProducts, r.path[2]) IN
             IF p # None THEN Response(200, p) ELSE Response(404, NotFoundBody)
      [] e = "search_products" ->
           LET q == Lower(QueryOf(r)) IN
             Response(200, SearchBody(q, FilterProducts(InitialProducts, q)))

\* ExpectedResponse, tabulated for the requests of the model
ExpectedOf == [r \in Requests |-> ExpectedResponse(r)]

(***************************************************************************)
(* C1                                                                      *)
(***************************************************************************)
\* C1 as stated: every request /products/x with x not the id of a catalog
\* product is answered 404 {"error": "Product not found"}, and no request
\* /products/x is answered with a 5xx status.
C1_Original ==
  \A t \in Threads :
    (Done(t) /\ IsByIdPath(req[t].path)) =>
      /\ resp[t].status < 500
      /\ req[t].path[2] \notin CatalogIds =>
           resp[t] = Response(404, NotFoundBody)

\* C1 amended: every request /products/x with x neither the id of a catalog
\* product (compared exactly, case-sensitively) nor the word "search" is
\* answered 404 {"error": "Product not found"}; /products/search is answered
\* by search_products with status 200 and a search result (the whole catalog
\* when there is no q argument); no request /products/x is answered 5xx.
C1_NotFound ==
  \A t \in Threads :
    (Done(t) /\ IsByIdPath(req[t].path)) =>
      /\ resp[t].status < 500
      /\ (req[t].path[2] \notin CatalogIds /\ req[t].path[2] # SegSearch) =>
           resp[t] = Response(404, NotFoundBody)
      /\ req[t].path[2] = SegSearch =>
           /\ resp[t].status = 200
           /\ DOMAIN resp[t].body = {"query", "products", "total"}
           /\ req[t].args = NoArgs => resp[t].body.products = InitialProducts

\* an unknown id and a catalog id in lower case have both been answered
C1_Witness ==
  \E t, u \in Threads :
    /\ Done(t) /\ req[t].path = <<SegProducts, UnknownId>>
    /\ Done(u) /\ req[u].path = <<SegProducts, Lower(Product1.id)>>

(***************************************************************************)
(* C2                                                                      *)
(***************************************************************************)
\* C2: for every product p of the catalog, the request /products/<p.id> is
\* answered with status 200 and the body p itself, all fields unchanged.
C2_GetById ==
  \A t \in Threads : \A i \in DOMAIN InitialProducts :
    (Done(t) /\ req[t].path = <<SegProducts, InitialProducts[i].id>>) =>
      resp[t] = Response(200, InitialProducts[i])

\* two different products have been fetched
C2_Witness ==
  \E t, u \in Threads :
    /\ Done(t) /\ req[t].path = <<SegProducts, Product2.id>>
    /\ Done(u) /\ req[u].path = <<SegProducts, Product4.id>>
    /\ resp[t].status = 200 /\ resp[u].status = 200

(***************************************************************************)
(* C3                                                                      *)
(***************************************************************************)
\* q occurs in s as a run of consecutive characters
C3_Contains(s, q) ==
  \E a \in 0..Len(s) :
    /\ a + Len(q) <= Len(s)
    /\ \A k \in 1..Len(q) : s[a + k] = q[k]

\* p matches q: lowercase(q) occurs in the lowercased name, description or
\* one of the lowercased categories
C3_MatchesSpec(q, p) ==
  \/ C3_Contains(Lower(p.name), Lower(q))
  \/ C3_Contains(Lower(p.description), Lower(q))
  \/ \E k \in DOMAIN p.categories : C3_Contains(Lower(p.categories[k]), Lower(q))

C3_Matching(q) ==
  { i \in DOMAIN InitialProducts : C3_MatchesSpec(q, InitialProducts[i]) }

\* C3_Matching, tabulated for the queries of the model
C3_MatchingOf == [q \in Queries |-> C3_Matching(q)]

\* r lists exactly the catalog products with an index in M, in catalog order
C3_IsSelection(r, M) ==
  /\ Len(r) = Cardinality(M)
  /\ \A i \in M : r[Cardinality({ j \in M : j <= i })] = InitialProducts[i]

\* C3: the products of a search response are exactly the catalog products
\* that match the query, in catalog order; the empty (or absent) query gives
\* the whole catalog; total is the number of products returned.
C3_Search ==
  \A t \in Threads :
    (Done(t) /\ Endpoint(t) = "search_products") =>
      /\ resp[t].status = 200
      /\ C3_IsSelection(resp[t].body.products, C3_MatchingOf[QueryOf(req[t])])
      /\ resp[t].body.total = Len(resp[t].body.products)
      /\ QueryOf(req[t]) = <<>> => resp[t].body.products = InitialProducts

\* a search that matches by category only and a search with no q argument
\* have been answered
C3_Witness ==
  \E t, u \in Threads :
    /\ Done(t) /\ Endpoint(t) = "search_products"
    /\ QueryOf(req[t]) # <<>>
    /\ resp[t].body.total = 1
    /\ Done(u) /\ Endpoint(u) = "search_products" /\ req[u].args = NoArgs

(***************************************************************************)
(* C4                                                                      *)
(***************************************************************************)
\* a capital letter and its small letter, for letters whose capital has
\* one lower-case form wherever it stands: the ASCII letters A-Z (65..90)
\* and a-z, the letters of the Latin-1 supplement (192..222 without the
\* multiplication sign 215), KELVIN SIGN (8490) and k, ANGSTROM SIGN (8491)
\* and a with ring, the capital and the small sharp s, alpha
C4_PlainCasePairs ==
  { {c, c + 32} : c \in (65..90) \cup ((192..222) \ {215}) } \cup
  { {8490, 107}, {8491, 229}, {7838, 223}, {913, 945} }

\* further case pairs: capital I with dot above (304) and i, I and dotless
\* i (305), S and long s (383), sigma (931) and its two small forms
C4_CasePairs ==
  C4_PlainCasePairs \cup
  { {304, 105}, {73, 305}, {83, 383}, {931, 963}, {931, 962} }

\* a and b differ at most in the case of their letters, a letter and its
\* other case being one of pairs
C4_SameUpToCase(a, b, pairs) ==
  /\ Len(a) = Len(b)
  /\ \A i \in 1..Len(a) : a[i] = b[i] \/ {a[i], b[i]} \in pairs

\* C4 as stated: two searches whose queries differ only in letter case
\* return the same products in the same order and the same total.
C4_Original ==
  \A t, u \in Threads :
    ( /\ Done(t) /\ Endpoint(t) = "search_products"
      /\ Done(u) /\ Endpoint(u) = "search_products"
      /\ C4_SameUpToCase(QueryOf(req[t]), QueryOf(req[u]), C4_CasePairs) ) =>
      /\ resp[t].body.products = resp[u].body.products
      /\ resp[t].body.total = resp[u].body.total

\* C4: two searches whose queries differ only in the case of letters whose
\* capital str.lower() turns into the one small letter of the pair (the ASCII
\* letters among them) return the same products in the same order and the
\* same total.
C4_CaseInsensitive ==
  \A t, u \in Threads :
    ( /\ Done(t) /\ Endpoint(t) = "search_products"
      /\ Done(u) /\ Endpoint(u) = "search_products"
      /\ C4_SameUpToCase(QueryOf(req[t]), QueryOf(req[u]), C4_PlainCasePairs) ) =>
      /\ resp[t].body.products = resp[u].body.products
      /\ resp[t].body.total = resp[u].body.total

\* two searches with differently spelled, case-equivalent queries and a
\* result that is not empty
C4_Witness ==
  \E t, u \in Threads :
    /\ Done(t) /\ Endpoint(t) = "search_products"
    /\ Done(u) /\ Endpoint(u) = "search_products"
    /\ QueryOf(req[t]) # QueryOf(req[u])
    /\ C4_SameUpToCase(QueryOf(req[t]), QueryOf(req[u]), C4_PlainCasePairs)
    /\ 8490 \in { QueryOf(req[t])[i] : i \in DOMAIN QueryOf(req[t]) }
    /\ resp[t].body.total > 0

(***************************************************************************)
(* C5                                                                      *)
(***************************************************************************)
\* the endpoint label each instrumented view function records
C5_EndpointLabel(e) ==
  CASE e = "list_products" -> "/products"
    [] e = "get_product" -> "/products/{id}"
    [] e = "search_products" -> "/products/search"

\* the threads whose request was answered by an instrumented view function
C5_Answered ==
  { t \in Threads : Done(t) /\ Endpoint(t) # "health_check" }

\* C5 as stated: every completed request has made exactly one counter
\* increment and one duration record, both with the same label set, whose
\* method label is the request's HTTP method and whose status label (for
\* get-by-id) tells whether the product was found; and when no request is
\* in progress the counter and the histogram have each been recorded as
\* often as there are completed requests.
C5_Original ==
  /\ \A t \in Threads :
       Done(t) =>
         /\ Len(measured[t].counter) = 1
         /\ Len(measured[t].duration) = 1
         /\ measured[t].counter[1] = measured[t].duration[1]
         /\ measured[t].counter[1].method = req[t].method
         /\ Endpoint(t) = "get_product" =>
              /\ measured[t].counter[1].status = "found" <=> resp[t].status = 200
              /\ measured[t].counter[1].status = "not_found" <=> resp[t].status = 404
  /\ Quiescent =>
       /\ BagCardinality(request_counter) = Cardinality({ t \in Threads : Done(t) })
       /\ BagCardinality(request_duration) = Cardinality({ t \in Threads : Done(t) })

\* C5 amended: a request answered by list_products, get_product or
\* search_products has made exactly one counter increment and one duration
\* record, both with the same label set: the endpoint of the view function,
\* the method label "GET" whatever the request's method (a HEAD request is
\* labelled GET), and, for get_product only, status "found" exactly when the
\* id is a catalog id (response 200) and "not_found" exactly when it is not
\* (response 404).  A health request records nothing.  No request records
\* either instrument twice, the counter holds one increment per counter.add
\* call made, and when no request is in progress the counter and the
\* histogram have each been recorded as often as there are completed
\* requests other than health requests.
C5_Metrics ==
  /\ \A t \in Threads :
       /\ Len(measured[t].counter) <= 1
       /\ Len(measured[t].duration) <= Len(measured[t].counter)
       /\ (Done(t) /\ Endpoint(t) = "health_check") => measured[t] = NoMeasurements
       /\ t \in C5_Answered =>
            /\ Len(measured[t].counter) = 1
            /\ Len(measured[t].duration) = 1
            /\ measured[t].counter[1] = measured[t].duration[1]
            /\ measured[t].counter[1].method = "GET"
            /\ measured[t].counter[1].endpoint = C5_EndpointLabel(Endpoint(t))
            /\ IF Endpoint(t) = "get_product"
                 THEN /\ measured[t].counter[1].status \in {"found", "not_found"}
                      /\ measured[t].counter[1].status = "found" <=>
                           req[t].path[2] \in CatalogIds
                      /\ measured[t].counter[1].status = "found" <=>
                           resp[t].status = 200
                      /\ measured[t].counter[1].status = "not_found" <=>
                           resp[t].status = 404
                 ELSE "status" \notin DOMAIN measured[t].counter[1]
  /\ BagCardinality(request_counter) =
       Cardinality({ t \in Threads : Len(measured[t].counter) = 1 })
  /\ BagCardinality(request_duration) =
       Cardinality({ t \in Threads : Len(measured[t].duration) = 1 })
  /\ Quiescent =>
       /\ BagCardinality(request_counter) = Cardinality(C5_Answered)
       /\ BagCardinality(request_duration) = Cardinality(C5_Answered)

\* a health request and a HEAD request for a catalog product have completed
C5_Witness ==
  \E t, u \in Threads :
    /\ Done(t) /\ Endpoint(t) = "health_check"
    /\ Done(u) /\ Endpoint(u) = "get_product" /\ req[u].method = "HEAD"
    /\ BagCardinality(request_counter) = 1

(***************************************************************************)
(* C6                                                                      *)
(***************************************************************************)
\* C6: whether or not a telemetry call of the view function failed, a
\* completed request has the status and the body it has when telemetry
\* succeeds.
C6_TelemetryNeverAffectsResult ==
  \A t \in Threads : Done(t) => resp[t] = ExpectedOf[req[t]]

(***************************************************************************)
(* C7                                                                      *)
(***************************************************************************)
\* C7: no request changes the catalog: it always holds the start-up products
\* in the start-up order, and every list request is answered 200 with
\* {products: <the start-up catalog>}.
C7_CatalogUnchanged ==
  /\ PRODUCTS = InitialProducts
  /\ \A t \in Threads :
       (Done(t) /\ Endpoint(t) = "list_products") =>
         resp[t] = Response(200, ListBody(InitialProducts))

\* a search with an empty query, whose result is the list PRODUCTS itself,
\* and a list request have completed
C7_Witness ==
  \E t, u \in Threads :
    /\ Done(t) /\ Endpoint(t) = "search_products" /\ query[t] = <<>>
    /\ Len(filtered_products[t]) = Len(InitialProducts)
    /\ Done(u) /\ Endpoint(u) = "list_products"

(***************************************************************************)
(* C8                                                                      *)
(***************************************************************************)
\* the threads serving an instrumented view function
C8_Instrumented ==
  { t \in Threads : pc[t] # "idle" /\ Endpoint(t) # "health_check" }

\* the place of each step in the sequence received, span-started,
\* store-queried, attributes-set, metrics-recorded, response-emitted (the end
\* of the span is counted with the emission of the response)
C8_Rank(e) ==
  CASE e = "received" -> 1
    [] e = "span-started" -> 2
    [] e = "store-queried" -> 3
    [] e = "attribute-set" -> 4
    [] e = "counter-recorded" -> 5
    [] e = "duration-recorded" -> 5
    [] e = "response-emitted" -> 6
    [] e = "span-ended" -> 6

\* the positions of step e among the steps s
C8_At(s, e) == { i \in DOMAIN s : s[i] = e }

\* C8 as stated: the steps of a request never go back in the sequence
\* received, span-started, store-queried, attributes-set, metrics-recorded,
\* response-emitted; in particular no attribute is set before the catalog
\* has been queried and the catalog is not queried after an attribute is set.
C8_Original ==
  \A t \in C8_Instrumented :
    /\ \A i, j \in DOMAIN events[t] :
         i < j => C8_Rank(events[t][i]) <= C8_Rank(events[t][j])
    /\ \A k \in 1..4 :
         (\E j \in DOMAIN events[t] : C8_Rank(events[t][j]) > k) =>
           \E i \in DOMAIN events[t] : C8_Rank(events[t][i]) = k

\* C8 amended: each request of list_products, get_product and
\* search_products is received, then starts its span, then sets attributes
\* and queries the catalog, then records the counter, then the duration,
\* then emits its response, then ends its span.  In get_product and
\* search_products the attributes that describe the request are set before
\* the catalog is queried and those that describe the result after it; in
\* list_products the catalog is read before the attributes are set and once
\* more when the response is built.  The counter and the duration are
\* recorded only after every span attribute is set and after the catalog
\* has been queried, each once; the response is produced only after both
\* are recorded, once; after it the only step is the end of the span.
C8_StepOrder ==
  \A t \in C8_Instrumented :
    LET s == events[t] IN
      /\ C8_At(s, "received") = {1}
      /\ C8_At(s, "span-started") \subseteq {2}
      /\ Cardinality(C8_At(s, "counter-recorded")) <= 1
      /\ Cardinality(C8_At(s, "duration-recorded")) <= 1
      /\ Cardinality(C8_At(s, "response-emitted")) <= 1
      /\ \A j \in C8_At(s, "counter-recorded") :
           /\ \A i \in C8_At(s, "attribute-set") : i < j
           /\ \E i \in C8_At(s, "store-queried") : i < j
           /\ \E i \in C8_At(s, "attribute-set") : i < j
      /\ \A j \in C8_At(s, "duration-recorded") : s[j - 1] = "counter-recorded"
      /\ \A j \in C8_At(s, "response-emitted") :
           /\ \E i \in C8_At(s, "duration-recorded") : i < j
           /\ \A i \in DOMAIN s : i > j => s[i] = "span-ended"
      /\ Endpoint(t) \in {"get_product", "search_products"} =>
           /\ \A j \in C8_At(s, "store-queried") :
                /\ s[j - 1] = "attribute-set"
                /\ \A i \in C8_At(s, "counter-recorded") : j + 1 < i
           /\ Cardinality(C8_At(s, "store-queried")) <= 1
      /\ Endpoint(t) = "list_products" =>
           \A j \in C8_At(s, "store-queried") :
             \/ j = 3
             \/ /\ s[j - 1] = "duration-recorded"
                /\ Len(s) > j /\ s[j + 1] = "response-emitted"
      /\ (Done(t) /\ resp[t].status # 500) => s[Len(s)] = "span-ended"

\* a get-by-id request for an unknown id has taken all its steps
C8_Witness ==
  \E t \in Threads :
    /\ Done(t) /\ Endpoint(t) = "get_product" /\ resp[t].status = 404
    /\ events[t] =
         << "received", "span-started", "attribute-set", "attribute-set",
            "attribute-set", "store-queried", "attribute-set", "attribute-set",
            "counter-recorded", "duration-recorded", "response-emitted",
            "span-ended" >>

(***************************************************************************)
(* C9                                                                      *)
(***************************************************************************)
\* C9: a span is never ended twice, it is ended only by the request's last
\* step, and a request that has terminated, by a return or by an exception
\* raised inside the with block, has ended the span it started.
C9_SpanEnded ==
  \A t \in Threads :
    span[t] # None =>
      /\ span[t].ended <= 1
      /\ span[t].ended = 1 <=> Done(t)

\* one request left its with block by an exception, another by the 404
\* return, and both spans are ended
C9_Witness ==
  \E t, u \in Threads :
    /\ Done(t) /\ resp[t] = ServerError /\ span[t] # None /\ span[t].ended = 1
    /\ Done(u) /\ resp[u].status = 404 /\ span[u] # None /\ span[u].ended = 1

(***************************************************************************)
(* C10                                                                     *)
(***************************************************************************)
\* C10: however the steps of the requests interleave, a request that has
\* started can always take its next step, a completed request has the status
\* and body it has when served alone, and once all requests have completed
\* the counter has been incremented once for each request to list_products,
\* get_product or search_products.
C10_Independent ==
  /\ \A t \in Threads : InFlight(t) => ENABLED Step(t)
  /\ \A t \in Threads : Done(t) => resp[t] = ExpectedOf[req[t]]
  /\ (\A t \in Threads : Done(t)) =>
       BagCardinality(request_counter) =
         Cardinality({ t \in Threads : Endpoint(t) # "health_check" })

\* a request for an unknown id arrived while a search with results was being
\* served, and completed before it
C10_Witness ==
  \E t, u \in Threads :
    /\ u < t
    /\ Done(t) /\ Endpoint(t) = "get_product" /\ resp[t].status = 404
    /\ pc[u] = "search_235" /\ Len(filtered_products[u]) > 0
    /\ BagCardinality(request_counter) = 2

====
